---- MODULE Spec2Model ----
(***************************************************************************)
(* State-machine model of the SPH fluid engine of flbase-dist/SPH/SPH.cpp. *)
(*                                                                         *)
(* Numbers.  The program computes in single-precision floats.  The model   *)
(* computes in fixed point: every scalar is an integer number of lattice   *)
(* units (one length unit is the collision bias of moveParticles), a       *)
(* float division is an integer division truncated toward zero, and the    *)
(* one non-finite float the program can produce (0/0) is the value NaN,    *)
(* which every operation propagates and every comparison rejects.          *)
(* A unit vector v/|v| is carried as the vector v itself; lengths are      *)
(* compared by their squares.                                              *)
(*                                                                         *)
(* Collaborators.  Particle, Grid and the _container Geometry are used by   *)
(* SPH.cpp but defined elsewhere; they are modelled from their contracts:  *)
(* the _container is the axis-aligned box [0, ContainerSize]^3.             *)
(***************************************************************************)
EXTENDS Integers, Sequences, FiniteSets, TLC

\* ------------------------------------------------------------------ bounds
\* number of animate() calls explored
MaxSteps == 2

\* ------------------------------------------------------- program constants
\* nbParticles
NumParticles == 2
\* QVector3D
Dim == 3
\* float bias = 0.0005 : the lattice unit of length
Bias == 1
\* edge of the container box, in lattice units
ContainerSize == 10
\* nbCellX = nbCellY = nbCellZ
nbCell == 3
\* smoothingRadius
_smoothingRadius == 4
\* _smoothingRadius2
_smoothingRadius2 == _smoothingRadius * _smoothingRadius
\* _restDensity
_restDensity == 16
\* _maxDeltaTime
_maxDeltaTime == 2
\* _pressure, _viscosity, _surfaceTension (uniform force coefficients)
_pressure == 4
_viscosity == 1024
_surfaceTension == 4
\* kernel coefficients; the units of mass and force absorb the factors
\* 315/(64 pi h^9) and 45/(pi h^6)
_coeffPoly6 == 1
_coeffSpiky == 1
_coeffVisc == 1
\* isosurface threshold parameter  float a = 0.3, in tenths
surfaceA10 == 3

Particles == 0 .. (NumParticles - 1)
Axes == 1 .. Dim

\* ------------------------------------------------------------- float model
\* the non-finite result of 0/0
NaN == -2000000000

IsNaN(x) == x = NaN

Add(a, b) == IF IsNaN(a) \/ IsNaN(b) THEN NaN ELSE a + b
Sub(a, b) == IF IsNaN(a) \/ IsNaN(b) THEN NaN ELSE a - b
Mul(a, b) == IF IsNaN(a) \/ IsNaN(b) THEN NaN ELSE a * b
Abs(a) == IF a < 0 THEN -a ELSE a
\* float division: truncated toward zero; a zero divisor gives a non-finite
\* value (the only one reachable is 0/0)
Div(a, b) ==
    IF IsNaN(a) \/ IsNaN(b) \/ b = 0 THEN NaN
    ELSE IF (a < 0) = (b < 0) THEN Abs(a) \div Abs(b)
         ELSE -(Abs(a) \div Abs(b))
\* a < b on floats: false as soon as one side is NaN
Less(a, b) == ~IsNaN(a) /\ ~IsNaN(b) /\ a < b

\* ::sqrt, rounded down to the lattice
Sqrt(x) ==
    IF IsNaN(x) \/ x < 0 THEN NaN
    ELSE CHOOSE k \in 0 .. x : k * k <= x /\ (k + 1) * (k + 1) > x

\* ------------------------------------------------------------- QVector3D
Zero3 == [k \in Axes |-> 0]
VecNaN(v) == \E k \in Axes : IsNaN(v[k])
VAdd(a, b) == [k \in Axes |-> Add(a[k], b[k])]
VSub(a, b) == [k \in Axes |-> Sub(a[k], b[k])]
VScale(a, s) == [k \in Axes |-> Mul(a[k], s)]
VDiv(a, s) == [k \in Axes |-> Div(a[k], s)]
VNeg(a) == [k \in Axes |-> Sub(0, a[k])]
RECURSIVE DotUpTo(_, _, _)
DotUpTo(a, b, n) ==
    IF n = 0 THEN 0 ELSE Add(DotUpTo(a, b, n - 1), Mul(a[n], b[n]))
\* QVector3D::dotProduct
dotProduct(a, b) == DotUpTo(a, b, Dim)
\* QVector3D::lengthSquared
lengthSquared(a) == dotProduct(a, a)

RECURSIVE Gcd(_, _)
Gcd(a, b) == IF b = 0 THEN a ELSE Gcd(b, a % b)
\* QVector3D::normalized : the unit vector v/|v|, carried as the shortest
\* lattice vector of that direction; a null vector stays null
normalized(v) ==
    IF VecNaN(v) THEN [k \in Axes |-> NaN]
    ELSE LET g == Gcd(Abs(v[1]), Gcd(Abs(v[2]), Abs(v[3])))
         IN IF g = 0 THEN v ELSE [k \in Axes |-> v[k] \div g]

\* --------------------------------------------------- container Geometry
\* The container is the box [0, ContainerSize]^Dim.  A wall is <<axis, side>>,
\* side 0 the wall at coordinate 0, side 1 the wall at ContainerSize.
Walls == Axes \X {0, 1}
WallCoord(w) == IF w[2] = 1 THEN ContainerSize ELSE 0
\* outward unit normal of a wall
WallNormal(w) == [k \in Axes |-> IF k = w[1] THEN (IF w[2] = 1 THEN 1 ELSE -1) ELSE 0]
\* distance from point o to the wall, measured inside the box
WallGap(w, o) == IF w[2] = 1 THEN ContainerSize - o[w[1]] ELSE o[w[1]]
\* Geometry::boundingBox
boundingBox == [minimum |-> [k \in Axes |-> 0], maximum |-> [k \in Axes |-> ContainerSize]]
\* whether a point lies in the closed box
InsideContainer(p) == ~VecNaN(p) /\ \A k \in Axes : 0 <= p[k] /\ p[k] <= ContainerSize

NoHit == [hit |-> FALSE]
\* the hit of wall w by the ray from o along vector m (m[w[1]] # 0): the point
\* o + s*m with s = sNum/sDen, the wall coordinate exact, the others rounded
\* toward the origin of the ray
WallHit(w, o, m) ==
    LET gap == WallGap(w, o)
        mc == Abs(m[w[1]])
    IN [hit |-> TRUE,
        position |-> [k \in Axes |-> IF k = w[1] THEN WallCoord(w)
                                      ELSE o[k] + Div(m[k] * gap, mc)],
        normal |-> WallNormal(w),
        wall |-> w,
        sNum |-> gap,
        sDen |-> mc]
\* the answer to a ray of null direction by a container that re-detects the
\* surface lying within Bias of the ray's origin
NearHit(w, o) ==
    [hit |-> TRUE,
     position |-> [k \in Axes |-> IF k = w[1] THEN WallCoord(w) ELSE o[k]],
     normal |-> WallNormal(w),
     wall |-> w,
     sNum |-> 0,
     sDen |-> 1]
\* Geometry::intersect(ray, intersection): the set of answers the container may
\* give for the ray from o with direction m/|m|.  A ray that leaves the box
\* hits the nearest wall it crosses (any of them when several are equally
\* near); the contract leaves the answer to a null direction open, and
\* nullRayHits tells whether this container answers it with a nearby wall.
intersect(o, m, nullRayHits) ==
    IF VecNaN(o) \/ VecNaN(m) THEN {NoHit}
    ELSE IF m = Zero3
    THEN {NoHit} \cup
         (IF nullRayHits
          THEN {NearHit(w, o) : w \in {w \in Walls : WallGap(w, o) >= 0 /\ WallGap(w, o) <= Bias}}
          ELSE {})
    ELSE LET out == {w \in Walls : m[w[1]] * WallNormal(w)[w[1]] > 0 /\ WallGap(w, o) >= 0}
             nearest == {w \in out : \A v \in out :
                            WallGap(w, o) * Abs(m[v[1]]) <= WallGap(v, o) * Abs(m[w[1]])}
         IN IF out = {} THEN {NoHit} ELSE {WallHit(w, o, m) : w \in nearest}

\* ---------------------------------------------------------------- Grid
\* SPH::inflatedContainerBoundingBox : the bounding box scaled by 1.2 about
\* its center
inflatedContainerBoundingBox ==
    LET bb == boundingBox
        center == VDiv(VAdd(bb.minimum, bb.maximum), 2)
    IN [minimum |-> VAdd(VDiv(VScale(VSub(bb.minimum, center), 12), 10), center),
        maximum |-> VAdd(VDiv(VScale(VSub(bb.maximum, center), 12), 10), center)]
\* per-axis cell size = extent / cell count
cellSize ==
    LET bb == inflatedContainerBoundingBox
    IN [k \in Axes |-> (bb.maximum[k] - bb.minimum[k]) \div nbCell]
Cells == 0 .. (nbCell * nbCell * nbCell - 1)
Clamp(x, lo, hi) == IF x < lo THEN lo ELSE IF x > hi THEN hi ELSE x
\* per-axis cell coordinate: floor division, clamped to the valid range
CellCoord(p, k) ==
    IF IsNaN(p[k]) THEN 0
    ELSE Clamp((p[k] - inflatedContainerBoundingBox.minimum[k]) \div cellSize[k], 0, nbCell - 1)
\* Grid::cellIndex
cellIndex(p) == CellCoord(p, 1) + nbCell * (CellCoord(p, 2) + nbCell * CellCoord(p, 3))
CellAxis(c, k) == IF k = 1 THEN c % nbCell
                  ELSE IF k = 2 THEN (c \div nbCell) % nbCell
                  ELSE c \div (nbCell * nbCell)
\* the cells one step away from each cell, in increasing order, as the grid
\* lists them at construction
Neighborhoods ==
    [c \in Cells |->
        LET near == {d \in Cells : \A k \in Axes : Abs(CellAxis(d, k) - CellAxis(c, k)) <= 1}
            f[n \in 0 .. Cardinality(Cells)] ==
                IF n = 0 THEN << >>
                ELSE IF (n - 1) \in near THEN Append(f[n - 1], n - 1) ELSE f[n - 1]
        IN f[Cardinality(Cells)]]
\* Grid::neighborhood : the cell and its existing neighbors one step away
neighborhood(c) == Neighborhoods[c]
\* Grid::addParticle
addParticle(g, c, i) == [g EXCEPT ![c] = Append(@, i)]
\* erase the first occurrence of i
RECURSIVE EraseOne(_, _)
EraseOne(s, i) ==
    IF s = << >> THEN << >>
    ELSE IF Head(s) = i THEN Tail(s) ELSE <<Head(s)>> \o EraseOne(Tail(s), i)
\* Grid::removeParticle
removeParticle(g, c, i) == [g EXCEPT ![c] = EraseOne(@, i)]
\* number of occurrences of i in a bucket
RECURSIVE Count(_, _)
Count(s, i) ==
    IF s = << >> THEN 0 ELSE (IF Head(s) = i THEN 1 ELSE 0) + Count(Tail(s), i)

\* the particles of the buckets of the neighborhood of cell c, in traversal
\* order (a particle bucketed twice is met twice)
NeighborParticles(g, c) ==
    LET cells == neighborhood(c)
        f[j \in 0 .. Len(cells)] ==
            IF j = 0 THEN << >> ELSE f[j - 1] \o g[cells[j]]
    IN f[Len(cells)]

\* ------------------------------------------------------------ Kernel Set
\* SPH::densityKernel
densityKernel(r2) ==
    LET diff == Sub(_smoothingRadius2, r2)
    IN Mul(_coeffPoly6, Mul(diff, Mul(diff, diff)))
\* SPH::densitykernelGradient
densitykernelGradient(r2) ==
    LET diff == Sub(_smoothingRadius2, r2)
    IN Mul(-3 * _coeffPoly6, Mul(diff, diff))
\* SPH::pressureKernel
pressureKernel(r) ==
    IF r = 0 THEN 0
    ELSE LET diff == Sub(_smoothingRadius, r)
         IN Div(Mul(_coeffSpiky, Mul(diff, diff)), r)
\* SPH::viscosityKernel
viscosityKernel(r) == Mul(_coeffVisc, Sub(_smoothingRadius, r))
\* SPH::pressure
pressure(density) == Sub(Div(density, _restDensity), 1)

\* ------------------------------------------------------------------ state
VARIABLES
    _particles,     \* _particles : index -> Particle
    _grid,          \* _grid : cell -> bucket (sequence of particle indices)
    _container,     \* _container : what the collaborator does with a null ray
    pc,            \* where animate() is: "idle", "densities", "forces", "move"
    deltaTime,     \* animate's clamped deltaTime
    gravity,       \* computeForces' local gravity vector
    sums,          \* computeDensities' per-iteration locals density, correction
    finished,      \* iterations of the running parallel loop that have ended
    mover,         \* moveParticles' locals for the particle being moved
    surface,       \* surfaceInfo's out-parameters value and normal
    steps,         \* number of animate() calls begun
    phases,        \* history: the phases begun in the current animate()
    sameRead,      \* history: <<i, j>> when iteration i of computeDensities read a
                   \* density that iteration j had stored in the same pass
    zeroDivide,    \* history: particles whose density or force was divided by a
                   \* correction sum equal to 0
    lastTest,      \* history: the last evaluation of the collision test
    hits,          \* history: the walls the moving particle collided with
    queried        \* history: query point -> the result of its first surfaceInfo
                   \* since the last step, and whether it was queried again

vars == <<_particles, _grid, _container, pc, deltaTime, gravity, sums, finished, mover,
          surface, steps, phases, sameRead, zeroDivide, lastTest, hits, queried>>

\* the points Geometry::randomInteriorPoint may return
InitPoints == {<<2, 1, 5>>, <<3, 1, 5>>, <<8, 2, 8>>}
\* the values TimeState::deltaTime may return
DeltaTimes == {0, 1, 3}
\* the local gravity vectors the placement of the system may give
Gravities == {<<0, -2, 0>>, <<1, -4, 0>>, <<2, -2, 1>>}
\* the points the mesher may query
QueryPoints == {<<3, 2, 5>>, <<9, 9, 1>>}

NoMover == [stage |-> "none"]
NoTest == [tested |-> FALSE]
NoSurface == [called |-> FALSE]
NoQuery == [calls |-> 0, first |-> NoSurface]

\* SPH::initializeParticles : the store and the grid after seeding, the
\* particles placed at points[0], points[1], ...
initializeParticles(totalVolume, points) ==
    LET totalMass == totalVolume * _restDensity
        mass == Div(totalMass, NumParticles)
        seed(i) == [mass |-> mass,
                    density |-> _restDensity,
                    volume |-> Div(mass, _restDensity),
                    position |-> points[i],
                    velocity |-> Zero3,
                    acceleration |-> Zero3,
                    pressure |-> 0,
                    cellIndex |-> cellIndex(points[i])]
        g[n \in 0 .. NumParticles] ==
            IF n = 0 THEN [c \in Cells |-> << >>]
            ELSE addParticle(g[n - 1], seed(n - 1).cellIndex, n - 1)
    IN [store |-> [i \in Particles |-> seed(i)], buckets |-> g[NumParticles]]

\* the state after construction, for the given total volumes and containers
InitWith(totalVolumes, nullRayHits) ==
    /\ \E tv \in totalVolumes, points \in [Particles -> InitPoints] :
           LET built == initializeParticles(tv, points)
           IN _particles = built.store /\ _grid = built.buckets
    /\ _container \in [nullRayHits : nullRayHits]
    /\ pc = "idle"
    /\ deltaTime = 0
    /\ gravity = Zero3
    /\ sums = [i \in Particles |-> [state |-> "todo"]]
    /\ finished = {}
    /\ mover = NoMover
    /\ surface = NoSurface
    /\ steps = 0
    /\ phases = << >>
    /\ sameRead = {}
    /\ zeroDivide = {}
    /\ lastTest = NoTest
    /\ hits = {}
    /\ queried = [q \in QueryPoints |-> NoQuery]

\* a positive fluid volume and a container that finds no hit for a null ray
Init == InitWith({NumParticles}, {FALSE})

\* ---------------------------------------------------------------- animate
\* SPH::animate, lines 38-42 : clamp the time delta, then computeDensities
Animate(dt) ==
    /\ pc = "idle"
    /\ steps < MaxSteps
    /\ deltaTime' = IF dt > _maxDeltaTime THEN _maxDeltaTime ELSE dt
    /\ pc' = "densities"
    /\ sums' = [i \in Particles |-> [state |-> "todo"]]
    /\ finished' = {}
    /\ steps' = steps + 1
    /\ phases' = <<"clamp", "densities">>
    /\ sameRead' = {}
    /\ lastTest' = NoTest
    /\ hits' = {}
    /\ surface' = NoSurface
    /\ queried' = [q \in QueryPoints |-> NoQuery]
    /\ UNCHANGED <<_particles, _grid, _container, gravity, mover, zeroDivide>>

\* the neighbors of particle i that the loops of lines 171-190 accept: the
\* particles of the neighborhood closer than the smoothing radius
Accepted(ps, g, i) ==
    LET ns == NeighborParticles(g, ps[i].cellIndex)
    IN SelectSeq(ns, LAMBDA n :
           Less(lengthSquared(VSub(ps[i].position, ps[n].position)), _smoothingRadius2))

\* computeDensities, lines 165-191 : the sums of one iteration
DensitySums(ps, g, i) ==
    LET ns == Accepted(ps, g, i)
        kernelMass(n) ==
            Mul(densityKernel(lengthSquared(VSub(ps[i].position, ps[n].position))),
                ps[n].mass)
        d[k \in 0 .. Len(ns)] ==
            IF k = 0 THEN 0 ELSE Add(d[k - 1], kernelMass(ns[k]))
        c[k \in 0 .. Len(ns)] ==
            IF k = 0 THEN 0 ELSE Add(c[k - 1], Div(kernelMass(ns[k]), ps[ns[k]].density))
    IN [density |-> d[Len(ns)], correction |-> c[Len(ns)]]

\* one iteration of the parallel loop of computeDensities, up to line 191:
\* it reads the neighbors as they are now
DensityAccumulate(i) ==
    /\ pc = "densities"
    /\ sums[i].state = "todo"
    /\ LET s == DensitySums(_particles, _grid, i)
       IN sums' = [sums EXCEPT ![i] = [state |-> "summed", density |-> s.density,
                                       correction |-> s.correction]]
    /\ LET read == Accepted(_particles, _grid, i)
       IN sameRead' = sameRead \cup
              {<<i, read[k]>> : k \in {k \in 1 .. Len(read) :
                                         read[k] # i /\ sums[read[k]].state = "stored"}}
    /\ UNCHANGED <<_particles, _grid, _container, pc, deltaTime, gravity, finished, mover,
                   surface, steps, phases, zeroDivide, lastTest, hits, queried>>

\* mutant: the pressure is taken from the stored, corrected density
StoreDensityCorrectedPressure(p, density, correction) ==
    LET stored == Div(density, correction)
    IN [p EXCEPT !.density = stored,
                 !.volume = Div(p.mass, stored),
                 !.pressure = pressure(stored)]
\* computeDensities, lines 193-195 : what the iteration stores in its particle
StoreDensity(p, density, correction) ==
    LET stored == Div(density, correction)
    IN [p EXCEPT !.density = stored,
                 !.volume = Div(p.mass, stored),
                 !.pressure = pressure(density)]

\* the end of one iteration of computeDensities
DensityStore(i) ==
    /\ pc = "densities"
    /\ sums[i].state = "summed"
    /\ _particles' = [_particles EXCEPT
           ![i] = StoreDensity(@, sums[i].density, sums[i].correction)]
    /\ sums' = [sums EXCEPT ![i].state = "stored"]
    /\ finished' = finished \cup {i}
    /\ zeroDivide' = IF sums[i].correction = 0 THEN zeroDivide \cup {i} ELSE zeroDivide
    /\ UNCHANGED <<_grid, _container, pc, deltaTime, gravity, mover, surface, steps,
                   phases, sameRead, lastTest, hits, queried>>

\* mutant: the loop is left as soon as one iteration has ended (nowait)
LoopEndedNowait(done) == done # {}
\* the implicit barrier that ends an omp parallel for: the loop is left when
\* every iteration has ended
LoopEnded(done) == done = Particles

\* SPH::computeForces, line 202, entered after computeDensities has returned
ComputeForces(g) ==
    /\ pc = "densities"
    /\ LoopEnded(finished)
    /\ pc' = "forces"
    /\ gravity' = g
    /\ finished' = {}
    /\ phases' = Append(phases, "forces")
    /\ UNCHANGED <<_particles, _grid, _container, deltaTime, sums, mover, surface, steps,
                   sameRead, zeroDivide, lastTest, hits, queried>>

\* computeForces, lines 208-244 : the sums of one iteration
ForceSums(ps, g, i) ==
    LET ns == Accepted(ps, g, i)
        p == ps[i]
        term(n) ==
            LET neighbor == ps[n]
                difference == VSub(p.position, neighbor.position)
                r2 == lengthSquared(difference)
                r == Sqrt(r2)
                volume == neighbor.volume
                meanPressure == Div(Add(neighbor.pressure, p.pressure), 2)
                kernelRR == densityKernel(r2)
            IN [pressureForce |->
                    VScale(difference, Mul(pressureKernel(r), Mul(meanPressure, volume))),
                viscosityForce |->
                    VScale(VSub(neighbor.velocity, p.velocity), Mul(viscosityKernel(r), volume)),
                tensionForce |-> VScale(difference, kernelRR),
                correction |-> Mul(kernelRR, volume)]
        f[k \in 0 .. Len(ns)] ==
            IF k = 0
            THEN [pressureForce |-> Zero3, viscosityForce |-> Zero3,
                  tensionForce |-> Zero3, correction |-> 0]
            ELSE LET t == term(ns[k])
                 IN [pressureForce |-> VSub(f[k - 1].pressureForce, t.pressureForce),
                     viscosityForce |-> VAdd(f[k - 1].viscosityForce, t.viscosityForce),
                     tensionForce |-> VAdd(f[k - 1].tensionForce, t.tensionForce),
                     correction |-> Add(f[k - 1].correction, t.correction)]
    IN f[Len(ns)]

\* computeForces, lines 246-252 : the acceleration of particle p from its sums
Acceleration(p, s, g) ==
    LET pressureForce == VDiv(VScale(s.pressureForce, _pressure), s.correction)
        viscosityForce == VDiv(VScale(s.viscosityForce, _viscosity), s.correction)
        tensionForce == VDiv(VScale(s.tensionForce, _surfaceTension), s.correction)
    IN VAdd(VDiv(VSub(VSub(viscosityForce, pressureForce), tensionForce), p.density), g)

\* one iteration of the parallel loop of computeForces
ForceIteration(i) ==
    /\ pc = "forces"
    /\ i \notin finished
    /\ LET s == ForceSums(_particles, _grid, i)
       IN /\ _particles' = [_particles EXCEPT
                ![i].acceleration = Acceleration(_particles[i], s, gravity)]
          /\ zeroDivide' = IF s.correction = 0 THEN zeroDivide \cup {i} ELSE zeroDivide
    /\ finished' = finished \cup {i}
    /\ UNCHANGED <<_grid, _container, pc, deltaTime, gravity, sums, mover, surface, steps,
                   phases, sameRead, lastTest, hits, queried>>

\* SPH::moveParticles, entered after computeForces has returned
MoveParticles ==
    /\ pc = "forces"
    /\ LoopEnded(finished)
    /\ pc' = "move"
    /\ mover' = [stage |-> "start", i |-> 0]
    /\ phases' = Append(phases, "move")
    /\ UNCHANGED <<_particles, _grid, _container, deltaTime, gravity, sums, finished, surface,
                   steps, sameRead, zeroDivide, lastTest, hits, queried>>

\* moveParticles, lines 285-291 : semi-explicit Euler
Euler(p, i, dt) ==
    LET velocity == VAdd(p.velocity, VScale(p.acceleration, dt))
        position == p.position
        newPosition == VAdd(p.position, VScale(velocity, dt))
        movement == VSub(newPosition, position)
    IN [stage |-> "loop", i |-> i, velocity |-> velocity, position |-> position,
        newPosition |-> newPosition, movement |-> movement, movementLeft |-> movement]

Integrate ==
    /\ pc = "move"
    /\ mover.stage = "start"
    /\ mover' = Euler(_particles[mover.i], mover.i, deltaTime)
    /\ hits' = {}
    /\ lastTest' = NoTest
    /\ UNCHANGED <<_particles, _grid, _container, pc, deltaTime, gravity, sums, finished,
                   surface, steps, phases, sameRead, zeroDivide, queried>>

\* the squared length of rayParameterT * direction, as the fraction num/den
HitLength2(h, direction) ==
    [num |-> Mul(h.sNum * h.sNum, lengthSquared(direction)), den |-> h.sDen * h.sDen]

\* moveParticles, lines 303-304 : the test that makes a hit a collision
CollisionTest(h, direction, movement, movementLeft) ==
    /\ h.hit
    /\ Less(HitLength2(h, direction).num,
            Mul(lengthSquared(movementLeft), HitLength2(h, direction).den))

\* mutant: the particle is nudged along the normal, through the wall
CollideNudgedOut(m, h) ==
    LET normal == h.normal
        position == h.position
        movementLeft == VSub(m.newPosition, position)
        movement == VSub(movementLeft, VScale(normal, dotProduct(movementLeft, normal)))
        nudged == VAdd(position, VScale(normal, Bias))
    IN [m EXCEPT !.position = nudged,
                 !.movementLeft = movementLeft,
                 !.movement = movement,
                 !.newPosition = VAdd(nudged, movement),
                 !.velocity = VSub(m.velocity, VScale(normal, dotProduct(m.velocity, normal)))]
\* mutant: an elastic response, the normal velocity reflected
CollideElastic(m, h) ==
    LET normal == h.normal
        position == h.position
        movementLeft == VSub(m.newPosition, position)
        movement == VSub(movementLeft, VScale(normal, dotProduct(movementLeft, normal)))
        nudged == VSub(position, VScale(normal, Bias))
    IN [m EXCEPT !.position = nudged,
                 !.movementLeft = movementLeft,
                 !.movement = movement,
                 !.newPosition = VAdd(nudged, movement),
                 !.velocity = VSub(m.velocity,
                                   VScale(normal, 2 * dotProduct(m.velocity, normal)))]
\* moveParticles, lines 307-326 : the response to a collision
Collide(m, h) ==
    LET normal == h.normal
        position == h.position
        movementLeft == VSub(m.newPosition, position)
        movement == VSub(movementLeft, VScale(normal, dotProduct(movementLeft, normal)))
        nudged == VSub(position, VScale(normal, Bias))
    IN [m EXCEPT !.position = nudged,
                 !.movementLeft = movementLeft,
                 !.movement = movement,
                 !.newPosition = VAdd(nudged, movement),
                 !.velocity = VSub(m.velocity, VScale(normal, dotProduct(m.velocity, normal)))]

\* one iteration of the while (true) loop of moveParticles, lines 297-338
CollisionLoop ==
    /\ pc = "move"
    /\ mover.stage = "loop"
    /\ LET direction == normalized(mover.movement)
       IN \E h \in intersect(mover.position, direction, _container.nullRayHits) :
            LET collision == CollisionTest(h, direction, mover.movement, mover.movementLeft)
            IN /\ lastTest' = [tested |-> TRUE, hit |-> h.hit, collision |-> collision,
                               nullRay |-> direction = Zero3,
                               before |-> h.hit /\
                                   Less(HitLength2(h, direction).num,
                                        Mul(lengthSquared(mover.movement),
                                            HitLength2(h, direction).den))]
               /\ IF collision
                  THEN /\ mover' = Collide(mover, h)
                       /\ hits' = hits \cup {h.wall}
                       /\ UNCHANGED _particles
                  ELSE /\ mover' = [mover EXCEPT !.stage = "cell",
                                        !.position = VAdd(mover.position, mover.movement)]
                       /\ _particles' = [_particles EXCEPT
                              ![mover.i].position = VAdd(mover.position, mover.movement),
                              ![mover.i].velocity = mover.velocity]
                       /\ UNCHANGED hits
    /\ UNCHANGED <<_grid, _container, pc, deltaTime, gravity, sums, finished, surface,
                   steps, phases, sameRead, zeroDivide, queried>>

\* mutant: the particle is added to its new bucket and left in the old one
RebucketWithoutRemove(ps, g, i, position) ==
    LET oldCellIndex == ps[i].cellIndex
        newCellIndex == cellIndex(position)
    IN IF oldCellIndex # newCellIndex
       THEN [store |-> [ps EXCEPT ![i].cellIndex = newCellIndex],
             buckets |-> addParticle(g, newCellIndex, i)]
       ELSE [store |-> ps, buckets |-> g]
\* moveParticles, lines 341-348 : the store and the grid after re-bucketing
\* particle i, committed at position
Rebucket(ps, g, i, position) ==
    LET oldCellIndex == ps[i].cellIndex
        newCellIndex == cellIndex(position)
    IN IF oldCellIndex # newCellIndex
       THEN [store |-> [ps EXCEPT ![i].cellIndex = newCellIndex],
             buckets |-> addParticle(removeParticle(g, oldCellIndex, i), newCellIndex, i)]
       ELSE [store |-> ps, buckets |-> g]

\* the end of one iteration of the for loop of moveParticles; after the last
\* particle, moveParticles and animate return
UpdateCell ==
    /\ pc = "move"
    /\ mover.stage = "cell"
    /\ LET r == Rebucket(_particles, _grid, mover.i, mover.position)
       IN _particles' = r.store /\ _grid' = r.buckets
    /\ IF mover.i + 1 < NumParticles
       THEN /\ mover' = [stage |-> "start", i |-> mover.i + 1]
            /\ UNCHANGED <<pc, phases>>
       ELSE /\ mover' = NoMover
            /\ pc' = "idle"
            /\ phases' = Append(phases, "return")
    /\ UNCHANGED <<_container, deltaTime, gravity, sums, finished, surface, steps,
                   sameRead, zeroDivide, lastTest, hits, queried>>

\* SPH::resetVelocities
ResetVelocities ==
    /\ pc = "idle"
    /\ _particles' = [i \in Particles |-> [_particles[i] EXCEPT !.velocity = Zero3]]
    /\ UNCHANGED <<_grid, _container, pc, deltaTime, gravity, sums, finished, mover,
                   surface, steps, phases, sameRead, zeroDivide, lastTest, hits, queried>>

\* surfaceInfo, lines 372-415 : value (in tenths) and normal at a point
SurfaceResult(ps, g, position) ==
    LET ns == SelectSeq(NeighborParticles(g, cellIndex(position)), LAMBDA n :
                  Less(lengthSquared(VSub(position, ps[n].position)), _smoothingRadius2))
        r2(n) == lengthSquared(VSub(position, ps[n].position))
        density[k \in 0 .. Len(ns)] ==
            IF k = 0 THEN 0
            ELSE Add(density[k - 1], Mul(densityKernel(r2(ns[k])), ps[ns[k]].mass))
        gradient[k \in 0 .. Len(ns)] ==
            IF k = 0 THEN Zero3
            ELSE VAdd(gradient[k - 1],
                      VScale(VScale(VSub(position, ps[ns[k]].position), 2),
                             Mul(densitykernelGradient(r2(ns[k])), ps[ns[k]].mass)))
    IN [called |-> TRUE,
        value |-> Sub(Div(Mul(10, density[Len(ns)]), _restDensity), 10 - surfaceA10),
        normal |-> VNeg(normalized(VDiv(gradient[Len(ns)], _restDensity)))]

\* mutant: like computeDensities, the evaluator stores the density it summed
\* in the particles of the cell of the query point
SurfaceInfoStoring(position) ==
    /\ pc = "idle"
    /\ surface' = SurfaceResult(_particles, _grid, position)
    /\ queried' = [queried EXCEPT ![position] =
           IF @.calls = 0 THEN [calls |-> 1, first |-> surface'] ELSE [@ EXCEPT !.calls = 2]]
    /\ _particles' = [i \in Particles |->
           IF _particles[i].cellIndex = cellIndex(position)
           THEN [_particles[i] EXCEPT !.density = surface'.value]
           ELSE _particles[i]]
    /\ UNCHANGED <<_grid, _container, pc, deltaTime, gravity, sums, finished,
                   mover, steps, phases, sameRead, zeroDivide, lastTest, hits>>
\* SPH::surfaceInfo : called by the mesher between two steps
SurfaceInfo(position) ==
    /\ pc = "idle"
    /\ surface' = SurfaceResult(_particles, _grid, position)
    /\ queried' = [queried EXCEPT ![position] =
           IF @.calls = 0 THEN [calls |-> 1, first |-> surface'] ELSE [@ EXCEPT !.calls = 2]]
    /\ UNCHANGED <<_particles, _grid, _container, pc, deltaTime, gravity, sums, finished,
                   mover, steps, phases, sameRead, zeroDivide, lastTest, hits>>

Next ==
    \/ \E dt \in DeltaTimes : Animate(dt)
    \/ \E i \in Particles : DensityAccumulate(i)
    \/ \E i \in Particles : DensityStore(i)
    \/ \E g \in Gravities : ComputeForces(g)
    \/ \E i \in Particles : ForceIteration(i)
    \/ MoveParticles
    \/ Integrate
    \/ CollisionLoop
    \/ UpdateCell
    \/ ResetVelocities
    \/ \E q \in QueryPoints : SurfaceInfo(q)

Spec == Init /\ [][Next]_vars

\* any total fluid volume the constructor accepts, zero included
InitAnyVolume == InitWith({0, NumParticles}, {FALSE})
SpecAnyVolume == InitAnyVolume /\ [][Next]_vars

\* any container; the thread that runs moveParticles keeps running its loop
InitAnyContainer == InitWith({NumParticles}, BOOLEAN)
SpecAnyContainer == InitAnyContainer /\ [][Next]_vars /\ WF_vars(CollisionLoop)

\* ----------------------------------------------------------------- claims
AllPhases == <<"clamp", "densities", "forces", "move", "return">>

\* C1: between steps (after construction and after every animate), each
\* particle is exactly once in the bucket of its stored cell index, in no
\* other bucket, and its stored cell index is cellIndex of its position.
C1_GridConsistency ==
    pc = "idle" =>
        \A i \in Particles :
            /\ \A c \in Cells :
                   Count(_grid[c], i) = IF c = _particles[i].cellIndex THEN 1 ELSE 0
            /\ _particles[i].cellIndex = cellIndex(_particles[i].position)
\* a step has ended with a particle in a cell where no particle was seeded
C1_Witness ==
    /\ pc = "idle"
    /\ steps > 0
    /\ \E i \in Particles :
           _particles[i].cellIndex \notin {cellIndex(x) : x \in InitPoints}

\* C2: every committed position lies in the closed container, whatever the
\* number of wall hits of the collision loop.
C2_Containment == \A i \in Particles : InsideContainer(_particles[i].position)
\* a particle has been committed after hitting two walls or more
C2_Witness ==
    /\ pc = "move"
    /\ mover.stage = "cell"
    /\ Cardinality(hits) >= 2
    /\ _particles[mover.i].position = mover.position

\* C3: an animate() runs clamp, densities, forces, move in this order, each
\* once; the delta is clamped; no force iteration starts before every
\* density iteration has stored, and no particle is moved before every
\* force iteration has ended.
C3_PhaseOrder ==
    /\ Len(phases) <= Len(AllPhases)
    /\ \A k \in 1 .. Len(phases) : phases[k] = AllPhases[k]
    /\ deltaTime <= _maxDeltaTime
    /\ pc = "idle" /\ steps > 0 => phases = AllPhases
    /\ pc = "densities" => phases = SubSeq(AllPhases, 1, 2)
    /\ pc = "forces" => /\ phases = SubSeq(AllPhases, 1, 3)
                        /\ \A i \in Particles : sums[i].state = "stored"
    /\ pc = "move" => /\ phases = SubSeq(AllPhases, 1, 4)
                      /\ \A i \in Particles : sums[i].state = "stored"
                      /\ finished = Particles
\* a step with a clamped delta has run to its end
C3_Witness ==
    /\ pc = "idle"
    /\ steps > 0
    /\ phases = AllPhases
    /\ deltaTime = _maxDeltaTime

\* C4: a call of surfaceInfo leaves the particles and the grid unchanged, and
\* returns what the first call at that point returned since the last step.
C4_SurfaceInfoReadOnly ==
    [][\A q \in QueryPoints :
          SurfaceInfo(q) =>
              /\ _particles' = _particles
              /\ _grid' = _grid
              /\ queried[q].calls > 0 => surface' = queried[q].first]_vars
\* a point near a particle has been queried twice after a step
C4_Witness ==
    /\ steps > 0
    /\ \E q \in QueryPoints :
           /\ queried[q].calls = 2
           /\ queried[q].first.value > surfaceA10 - 10
           /\ queried[q].first.normal # Zero3

\* C5: no iteration of computeDensities reads a density that another
\* iteration stored during the same pass.
C5_ReadsPreviousDensities == sameRead = {}

\* C6 as claimed: after the density pass the stored pressure is the stored
\* density / restDensity - 1 and the stored volume is mass / stored density.
C6_PressureOfStoredDensity ==
    \A i \in Particles :
        sums[i].state = "stored" =>
            /\ _particles[i].pressure = pressure(_particles[i].density)
            /\ _particles[i].volume = Div(_particles[i].mass, _particles[i].density)
\* C6 amended: after the density pass the stored density is rawSum /
\* correctionSum, the stored pressure is rawSum / restDensity - 1 (the raw
\* sum, not the stored density), and the stored volume is mass / stored
\* density.
C6_PressureOfRawSum ==
    \A i \in Particles :
        sums[i].state = "stored" =>
            /\ _particles[i].density = Div(sums[i].density, sums[i].correction)
            /\ _particles[i].pressure = pressure(sums[i].density)
            /\ _particles[i].volume = Div(_particles[i].mass, _particles[i].density)
\* the density pass has ended and a raw sum differs from the stored density
C6_Witness ==
    /\ pc = "forces"
    /\ \E i \in Particles :
           sums[i].state = "stored" /\ sums[i].density # _particles[i].density

\* C7: the collision loop of every particle reaches its commit branch.
C7_LoopTerminates == (mover.stage = "loop") ~> (mover.stage = "cell")

\* C8: a hit is treated as a collision only if it lies nearer than the end
\* of the displacement the ray was cast along.
C8_CollisionBeforeEndOfRay ==
    lastTest.tested /\ lastTest.collision => lastTest.before

\* C9: no density and no force is divided by a correction sum equal to 0, and
\* no particle gets a non-finite density or acceleration.
C9_NoZeroCorrection ==
    /\ zeroDivide = {}
    /\ \A i \in Particles :
           ~IsNaN(_particles[i].density) /\ ~VecNaN(_particles[i].acceleration)

\* C10: when a particle is committed, for every wall it hit in the step its
\* velocity has no component along the wall's normal and its position is
\* exactly Bias away from the wall.
C10_InelasticResponse ==
    pc = "move" /\ mover.stage = "cell" =>
        \A w \in hits :
            /\ dotProduct(_particles[mover.i].velocity, WallNormal(w)) = 0
            /\ WallGap(w, _particles[mover.i].position) = Bias
\* a particle has been committed after a hit, still moving along the wall
C10_Witness ==
    /\ pc = "move"
    /\ mover.stage = "cell"
    /\ hits # {}
    /\ _particles[mover.i].velocity # Zero3
    /\ mover.movement # Zero3
====
